---- MODULE Spec2Model ----
(***************************************************************************)
(* The portfolio simulation engine of simulate_portfolio.py: the replay    *)
(* loop of simulate_portfolio(recs, first_date, last_date), one action per *)
(* popped recommendation and one per end of trading day.                   *)
(*                                                                         *)
(* Dates are integers.  Python's float arithmetic on shares and money is   *)
(* modelled by exact rationals, a pair <<n, d>> in lowest terms with d > 0.*)
(* An unhandled Python exception ends the run with pc naming its line.     *)
(***************************************************************************)
EXTENDS Integers, Sequences, FiniteSets, TLC

\* ------------------------------------------------------------------ bounds
\* Last date of the model's calendar window (dates are FirstDate..MaxDay).
MaxDay == 3
\* Longest recommendation list given to simulate_portfolio.
MaxRecs == 3

\* ------------------------------------------------------- program constants
INVESTMENT == 10000
SnP500 == "SPY"

\* The first_date argument of the run (01/01 of the year: not a trading day).
FirstDate == 0

Symbols == {SnP500, "AAA"}
\* The spellings of the recommendation column that the model feeds in.
Spellings == {"BUY", "Sell", "reduce", "HOLD"}

\* mutant of Lower: a hold is read as a sell
LowerHoldAsSell(s) ==
    CASE s \in {"BUY", "Buy", "buy"} -> "buy"
      [] s \in {"SELL", "Sell", "sell", "HOLD", "Hold", "hold"} -> "sell"
      [] s \in {"REDUCE", "Reduce", "reduce"} -> "reduce"
      [] OTHER -> s

\* str.lower() on the spellings above.
Lower(s) ==
    CASE s \in {"BUY", "Buy", "buy"} -> "buy"
      [] s \in {"SELL", "Sell", "sell"} -> "sell"
      [] s \in {"REDUCE", "Reduce", "reduce"} -> "reduce"
      [] s \in {"HOLD", "Hold", "hold"} -> "hold"
      [] OTHER -> s

\* ---------------------------------------------------------------- rationals
RECURSIVE GCD(_, _)
GCD(a, b) == IF b = 0 THEN a ELSE GCD(b, a % b)

Abs(a) == IF a < 0 THEN -a ELSE a

Norm(n, d) == LET g == GCD(Abs(n), Abs(d)) IN <<n \div g, d \div g>>

Rat(n) == <<n, 1>>
Zero == Rat(0)
Add(x, y) == Norm(x[1] * y[2] + y[1] * x[2], x[2] * y[2])
Sub(x, y) == Norm(x[1] * y[2] - y[1] * x[2], x[2] * y[2])
Mul(x, y) == Norm(x[1] * y[1], x[2] * y[2])
\* x / y for y > 0
Div(x, y) == Norm(x[1] * y[2], x[2] * y[1])
Geq(x, y) == x[1] * y[2] >= y[1] * x[2]
Gt(x, y) == x[1] * y[2] > y[1] * x[2]
\* Python's x // 2 on a float: floor(x / 2)
FloorDiv2(x) == Rat(x[1] \div (2 * x[2]))

\* ------------------------------------------------------- the price provider
\* The provider's bar of symbol s on date d (yfinance columns).  Whether the
\* provider has a bar at all for (s, d) is chosen when the history is fetched.
High(s, d) ==
    IF s = SnP500 THEN (IF d % 2 = 0 THEN 400 ELSE 500)
    ELSE (IF d % 2 = 0 THEN 80 ELSE 125)

Low(s, d) ==
    IF s = SnP500 THEN (IF d % 2 = 0 THEN 390 ELSE 480)
    ELSE (IF d % 2 = 0 THEN 64 ELSE 100)

Close(s, d) ==
    IF s = SnP500 THEN (IF d % 2 = 0 THEN 395 ELSE 490)
    ELSE (IF d % 2 = 0 THEN 72 ELSE 110)

Dividends(s, d) ==
    IF s = SnP500 THEN (IF d % 2 = 0 THEN 0 ELSE 25)
    ELSE (IF d % 2 = 0 THEN 50 ELSE 0)

\* date.month: the model's months are two days long (0,1 | 2,3 | ...).
Month(d) == d \div 2

\* ------------------------------------------------------------------- state
VARIABLES
    recs,        \* the recs list: the argument, then (line 73) the filtered
                 \* queue, descending by date, whose tail is next
    data,        \* the output rows appended so far
    portfolio,   \* symbol -> share count
    history,     \* symbol -> index (set of dates) of the cached history
    cash,
    investment,
    current_date, \* the loop variable of line 85 (NoDate after the last day)
    snapshot,    \* the last end-of-month report printed (None before any)
    popped,      \* history variable: the rec popped last at line 88, with
                 \* the trading day it was popped on and what became of it
    given,       \* history variable: the length of the recs argument
    calls,       \* history variable: symbol -> number of get_history calls
    pc           \* "start" | "loop" | "done" | "KeyError117" | "KeyError160"

vars == <<recs, data, portfolio, history, cash, investment, current_date,
          snapshot, popped, given, calls, pc>>

None == [date |-> -1, cash |-> Zero, snp |-> Zero, fool |-> Zero]
NoRec == [row |-> 0, date |-> -1, symbol |-> "", action |-> "", on |-> -1,
          outcome |-> ""]

\* ------------------------------------------------------------ line 73: sort
\* mutant of DateFilter: the rows dated first_date are kept
DateFilterInclusive(rec) == rec.date >= FirstDate

\* The generator expression: keeps the rows dated after first_date, in order.
DateFilter(rec) == rec.date > FirstDate

\* list.sort is stable; with reverse=True equal keys still keep their
\* original order.  Insertion of x behind every element whose key is >= its own.
RECURSIVE InsertDesc(_, _)
InsertDesc(s, x) ==
    IF s = <<>> THEN <<x>>
    ELSE IF Head(s).date >= x.date THEN <<Head(s)>> \o InsertDesc(Tail(s), x)
    ELSE <<x>> \o s

RECURSIVE SortedDesc(_)
SortedDesc(s) ==
    IF s = <<>> THEN <<>>
    ELSE InsertDesc(SortedDesc(SubSeq(s, 1, Len(s) - 1)), s[Len(s)])

FilteredSorted(input) == SortedDesc(SelectSeq(input, DateFilter))

\* ------------------------------------------------------------- the calendar
\* history[SnP500].index: the trading days of the run
Calendar == IF SnP500 \in DOMAIN history THEN history[SnP500] ELSE {}

\* the date the for loop of line 85 takes after d (NoDate when the index is
\* exhausted)
NoDate == MaxDay + 1
Earliest(S) == IF S = {} THEN NoDate ELSE CHOOSE x \in S : \A y \in S : x <= y
\* mutant of DateAfter: the loop steps over the date right after d
DateAfterSkipping(d) == Earliest({x \in Calendar : x > d + 1})

DateAfter(d) == Earliest({x \in Calendar : x > d})

InLoop == pc = "loop" /\ current_date # NoDate

\* ------------------------------------------------------------------- Init
\* one row of the csv, as read_recommendations returns it
RecInputs ==
    [date : FirstDate..(MaxDay - 1), symbol : Symbols, recommendation : Spellings]

\* The csv rows, each with its row number (source order).
Rows(f) == [k \in 1..Len(f) |->
              [date |-> f[k].date, symbol |-> f[k].symbol,
               recommendation |-> f[k].recommendation, row |-> k]]

\* simulate_portfolio is entered with the recs argument
Init ==
    /\ \E n \in 0..MaxRecs : \E f \in [1..n -> RecInputs] : recs = Rows(f)
    /\ data = <<>>
    /\ portfolio = << >>
    /\ history = << >>
    /\ cash = Zero
    /\ investment = Zero
    /\ current_date = NoDate
    /\ snapshot = None
    /\ popped = NoRec
    /\ given = Len(recs)
    /\ calls = [s \in Symbols |-> 0]
    /\ pc = "start"

\* lines 73-85: the queue, the empty state, the benchmark's history (any set
\* of dates of the window) and the first date of the loop
Start ==
    /\ pc = "start"
    /\ recs' = FilteredSorted(recs)
    /\ portfolio' = [s \in {SnP500} |-> Zero]
    /\ \E idx \in SUBSET ((FirstDate + 1)..MaxDay) :
        /\ history' = [s \in {SnP500} |-> idx]
        /\ current_date' = Earliest(idx)
    /\ calls' = [calls EXCEPT ![SnP500] = @ + 1]
    /\ pc' = "loop"
    /\ UNCHANGED <<data, cash, investment, snapshot, popped, given>>

\* ------------------------------------------------------------ dictionaries
Put(f, k, v) == [x \in (DOMAIN f) \cup {k} |-> IF x = k THEN v ELSE f[x]]
Remove(f, k) == [x \in (DOMAIN f) \ {k} |-> f[x]]

\* ------------------------------------------------- lines 87-101: the queue
\* recs[-1]
NextRec == recs[Len(recs)]

\* mutant of Due: a recommendation is also taken on its own date
DueSameDay(rec, d) == rec.date <= d

\* the while condition's date test
Due(rec, d) == rec.date < d

\* mutant of CanPop: an if for the while, one recommendation a day
CanPopOnce ==
    InLoop /\ Len(recs) > 0 /\ Due(NextRec, current_date) /\ popped.on # current_date

\* line 87: the while condition, inside the for loop
CanPop == InLoop /\ Len(recs) > 0 /\ Due(NextRec, current_date)

\* mutant of Fetches: the cache is not consulted, every pop fetches
FetchesAfresh(sym) == SUBSET (current_date..MaxDay)

\* What history holds for sym after lines 90-97, as an index of dates: the
\* cached one, or what get_history(sym, start=current_date, end=today)
\* returns now (any set of dates from current_date on; {} is hist.empty).
Fetches(sym) ==
    IF sym \in DOMAIN history THEN {history[sym]}
    ELSE SUBSET (current_date..MaxDay)

\* mutant of Cached: an empty history is stored like any other
CachedAlways(sym, h) == Put(history, sym, h)

\* history after lines 90-97 when the fetch gave index h
Cached(sym, h) == IF h = {} THEN history ELSE Put(history, sym, h)

\* calls after lines 90-91: get_history is called when sym is not cached
Called(sym) ==
    IF sym \in DOMAIN history THEN calls ELSE [calls EXCEPT ![sym] = @ + 1]

\* rec.pop() and the fetch, common to every way a recommendation ends
Popped(h, outcome) ==
    /\ h \in Fetches(NextRec.symbol)
    /\ recs' = SubSeq(recs, 1, Len(recs) - 1)
    /\ history' = Cached(NextRec.symbol, h)
    /\ popped' = [row |-> NextRec.row, date |-> NextRec.date,
                  symbol |-> NextRec.symbol,
                  action |-> Lower(NextRec.recommendation),
                  on |-> current_date, outcome |-> outcome]
    /\ calls' = Called(NextRec.symbol)
    /\ UNCHANGED given

\* lines 92-94: nothing cached and the fetch is empty
SkipNoHistory ==
    /\ CanPop
    /\ Popped({}, "no history")
    /\ UNCHANGED <<data, portfolio, cash, investment, current_date, snapshot, pc>>

\* lines 99-101: the (cached or fetched) history has no bar for current_date
SkipNoPrice ==
    /\ CanPop
    /\ \E h \in Fetches(NextRec.symbol) :
        /\ h # {} /\ current_date \notin h
        /\ Popped(h, "no price")
        /\ UNCHANGED <<data, portfolio, cash, investment, current_date, snapshot, pc>>

\* mutant of Priced: the recommendation is acted on without a bar
PricedAnyway(h, outcome) == Popped(h, outcome)

\* the recommendation reaches line 102 with a price
Priced(h, outcome) == Popped(h, outcome) /\ current_date \in h

\* ------------------------------------------------------- lines 104-120: buy
\* line 105
BoughtShares(sym, d) == Div(Rat(INVESTMENT), Rat(High(sym, d)))

\* lines 106-111
WithShares(p, sym, shares) ==
    IF sym \notin DOMAIN p THEN Put(p, sym, shares)
    ELSE [p EXCEPT ![sym] = Add(@, shares)]

\* line 112
Covered(c) == Geq(c, Rat(INVESTMENT))

\* line 115
Purchase(c) == Sub(Rat(INVESTMENT), c)

\* mutant of CashAfterBuy: INVESTMENT is drawn whatever the cash
CashOverdrawn(c) == Sub(c, Rat(INVESTMENT))

\* lines 113 and 120
CashAfterBuy(c) == IF Covered(c) THEN Sub(c, Rat(INVESTMENT)) ELSE Zero

\* mutant of InvestmentAfterBuy: a shortfall records the whole investment
InvestmentInFull(inv, c) == IF Covered(c) THEN inv ELSE Add(inv, Rat(INVESTMENT))

\* line 119
InvestmentAfterBuy(inv, c) == IF Covered(c) THEN inv ELSE Add(inv, Purchase(c))

\* mutant of Funded: the benchmark shares are bought at the low price
FundedAtLow(p, c, d) ==
    IF Covered(c) THEN p
    ELSE [p EXCEPT ![SnP500] = Add(@, Div(Purchase(c), Rat(Low(SnP500, d))))]

\* lines 116-117
Funded(p, c, d) ==
    IF Covered(c) THEN p
    ELSE [p EXCEPT ![SnP500] = Add(@, Div(Purchase(c), Rat(High(SnP500, d))))]

Buy ==
    /\ CanPop
    /\ \E h \in Fetches(NextRec.symbol), d \in {current_date}, sym \in {NextRec.symbol} :
        \E p1 \in {WithShares(portfolio, sym, BoughtShares(sym, d))} :
           /\ Priced(h, "buy")
           /\ Lower(NextRec.recommendation) = "buy"
           /\ Covered(cash) \/ SnP500 \in DOMAIN p1
           /\ portfolio' = Funded(p1, cash, d)
           /\ cash' = CashAfterBuy(cash)
           /\ investment' = InvestmentAfterBuy(investment, cash)
           /\ UNCHANGED <<data, current_date, snapshot, pc>>

\* line 117 raises KeyError: the benchmark is no key of portfolio
BuyFails ==
    /\ CanPop
    /\ \E h \in Fetches(NextRec.symbol), d \in {current_date}, sym \in {NextRec.symbol} :
        \E p1 \in {WithShares(portfolio, sym, BoughtShares(sym, d))} :
           /\ Priced(h, "KeyError")
           /\ Lower(NextRec.recommendation) = "buy"
           /\ ~Covered(cash) /\ SnP500 \notin DOMAIN p1
           /\ portfolio' = p1
           /\ pc' = "KeyError117"
           /\ UNCHANGED <<data, cash, investment, current_date, snapshot>>

\* ------------------------------------------------------ lines 121-126: sell
\* mutant of Proceeds: the shares are sold at the high price
ProceedsAtHigh(shares, sym, d) == Mul(shares, Rat(High(sym, d)))

\* line 124
Proceeds(shares, sym, d) == Mul(shares, Rat(Low(sym, d)))

\* mutant of Closed: the sold position is zeroed, its key kept
Zeroed(p, sym) == [p EXCEPT ![sym] = Zero]

\* line 126
Closed(p, sym) == Remove(p, sym)

Sell ==
    /\ CanPop
    /\ \E h \in Fetches(NextRec.symbol), d \in {current_date}, sym \in {NextRec.symbol} :
        /\ Priced(h, "sell")
        /\ Lower(NextRec.recommendation) = "sell"
        /\ sym \in DOMAIN portfolio
        /\ cash' = Add(cash, Proceeds(portfolio[sym], sym, d))
        /\ portfolio' = Closed(portfolio, sym)
        /\ UNCHANGED <<data, investment, current_date, snapshot, pc>>

\* ---------------------------------------------------- lines 127-132: reduce
\* mutant of Half: true division, no floor
HalfExact(n) == Div(n, Rat(2))

\* line 129
Half(n) == FloorDiv2(n)

Reduce ==
    /\ CanPop
    /\ \E h \in Fetches(NextRec.symbol), d \in {current_date}, sym \in {NextRec.symbol} :
        /\ Priced(h, "reduce")
        /\ Lower(NextRec.recommendation) = "reduce"
        /\ sym \in DOMAIN portfolio
        /\ \E shares \in {Half(portfolio[sym])} :
            /\ cash' = Add(cash, Proceeds(shares, sym, d))
            /\ portfolio' = [portfolio EXCEPT ![sym] = Sub(@, shares)]
        /\ UNCHANGED <<data, investment, current_date, snapshot, pc>>

\* no branch of lines 104-132 acts: another action word (hold), or a sell
\* or reduce of a symbol that is not held
Acts(action, sym) ==
    \/ action = "buy"
    \/ action \in {"sell", "reduce"} /\ sym \in DOMAIN portfolio

NoAction ==
    /\ CanPop
    /\ \E h \in Fetches(NextRec.symbol) :
        /\ Priced(h, "none")
        /\ ~Acts(Lower(NextRec.recommendation), NextRec.symbol)
        /\ UNCHANGED <<data, portfolio, cash, investment, current_date, snapshot, pc>>

\* ------------------------------------------- lines 135-151: the valuation
\* line 138: the positions that have a bar today
HasBar(sym, d) == d \in history[sym]

\* mutant of Accrued: the dividend is not taken as a percentage
AccruedUnscaled(shares, v) == Mul(shares, Add(Rat(1), Rat(v)))

\* line 144
Accrued(shares, v) == Mul(shares, Add(Rat(1), Div(Rat(v), Rat(100))))

\* lines 143-145
AfterDividends(p, d) ==
    [s \in DOMAIN p |->
        IF HasBar(s, d) /\ Dividends(s, d) > 0
        THEN Accrued(p[s], Dividends(s, d)) ELSE p[s]]

\* line 146
Amount(p, s, d) == Mul(p[s], Rat(Close(s, d)))

RECURSIVE Total(_, _, _)
Total(S, p, d) ==
    IF S = {} THEN Zero
    ELSE LET s == CHOOSE x \in S : TRUE
         IN Add(Amount(p, s, d), Total(S \ {s}, p, d))

\* lines 135, 149-150: cash and the priced positions other than the benchmark
FoolAmount(p, c, d) ==
    Add(c, Total({s \in DOMAIN p : s # SnP500 /\ HasBar(s, d)}, p, d))

\* lines 136, 147-148
SnpAmount(p, d) ==
    IF SnP500 \in DOMAIN p /\ HasBar(SnP500, d) THEN Amount(p, SnP500, d) ELSE Zero

\* line 151, after the dividends of the day
Row(p, c, inv, d) ==
    [date |-> d, investment |-> inv,
     fool |-> FoolAmount(p, c, d), snp |-> SnpAmount(p, d)]

\* ------------------------------------------- lines 155-166: the month end
\* line 155
MonthEnd ==
    IF DateAfter(current_date) = NoDate THEN TRUE
    ELSE Month(DateAfter(current_date)) # Month(current_date)

\* line 160 raises KeyError for a held symbol without a bar today
Reportable(p, d) == \A s \in DOMAIN p : s # SnP500 => HasBar(s, d)

\* line 165: fool_amount already holds the cash
ReportedTotal(fool, c) == Add(fool, c)

\* lines 163-166
Report(p, c, d) ==
    [date |-> d, cash |-> c, snp |-> SnpAmount(p, d),
     fool |-> ReportedTotal(FoolAmount(p, c, d), c)]

EndOfDay ==
    /\ InLoop /\ ~CanPop
    /\ \E d \in {current_date} : \E p \in {AfterDividends(portfolio, d)} :
        /\ ~MonthEnd \/ Reportable(p, d)
        /\ portfolio' = p
        /\ data' = Append(data, Row(p, cash, investment, d))
        /\ snapshot' = IF MonthEnd THEN Report(p, cash, d) ELSE snapshot
    /\ current_date' = DateAfter(current_date)
    /\ UNCHANGED <<recs, history, cash, investment, popped, given, calls, pc>>

\* the row is appended, then the report fails at line 160
EndOfDayFails ==
    /\ InLoop /\ ~CanPop
    /\ \E d \in {current_date} : \E p \in {AfterDividends(portfolio, d)} :
        /\ MonthEnd /\ ~Reportable(p, d)
        /\ portfolio' = p
        /\ data' = Append(data, Row(p, cash, investment, d))
    /\ pc' = "KeyError160"
    /\ UNCHANGED <<recs, history, cash, investment, current_date, snapshot, popped,
                   given, calls>>

\* line 168: the calendar is exhausted
Return ==
    /\ pc = "loop" /\ current_date = NoDate
    /\ pc' = "done"
    /\ UNCHANGED <<recs, data, portfolio, history, cash, investment, current_date,
                   snapshot, popped, given, calls>>

Next ==
    \/ Start
    \/ SkipNoHistory
    \/ SkipNoPrice
    \/ Buy
    \/ BuyFails
    \/ Sell
    \/ Reduce
    \/ NoAction
    \/ EndOfDay
    \/ EndOfDayFails
    \/ Return

Spec == Init /\ [][Next]_vars

\* ======================================================================
\* The claims
\* ======================================================================
Applied == {"buy", "sell", "reduce"}

\* a step that pops a recommendation (rows are unique, so popped changes)
PopStep == popped' # popped
\* a step that values the day and appends its row
ValueStep == Len(data') = Len(data) + 1

LastRow == data[Len(data)]

\* ------------------------------------------------------------------- C1
\* C1: a recommendation dated d is popped on the earliest trading day of the
\* benchmark calendar that is strictly greater than d, never on d itself,
\* and once popped it is gone from the queue; a recommendation still in the
\* queue has had no trading day after its date completed.
C1_AppliedOnNextTradingDay ==
    /\ popped # NoRec =>
        /\ popped.on \in Calendar
        /\ popped.date < popped.on
        /\ \A t \in Calendar : t > popped.date => t >= popped.on
        /\ \A i \in 1..Len(recs) : recs[i].row # popped.row
    /\ pc # "start" =>
        \A i \in 1..Len(recs) :
            \A t \in Calendar : t > recs[i].date => t >= current_date

\* a recommendation dated 1 was applied on day 3, day 2 being no trading day
C1_Witness ==
    /\ popped.outcome \in Applied
    /\ popped.date = 1 /\ popped.on = 3 /\ 2 \notin Calendar

\* ------------------------------------------------------------------- C2
\* C2: recommendations are applied in ascending date order, and two with the
\* same date in the order of the input list: of two recommendations applied
\* one after the other, the earlier has the smaller date, or the same date
\* and the smaller row.
C2_AppliedInSourceOrder ==
    [][(PopStep /\ popped.outcome \in Applied /\ popped'.outcome \in Applied)
        => \/ popped.date < popped'.date
           \/ popped.date = popped'.date /\ popped.row < popped'.row]_vars

\* ------------------------------------------------------------------- C3
\* C3: an applied BUY with cash c: if c >= INVESTMENT, cash becomes
\* c - INVESTMENT and investment is unchanged; otherwise cash becomes 0 and
\* investment grows by INVESTMENT - c.  Cash drawn plus investment recorded
\* is INVESTMENT.
C3_BuyFunding ==
    [][(PopStep /\ popped'.outcome = "buy") =>
        /\ IF cash[1] >= INVESTMENT * cash[2]
           THEN /\ cash' = Norm(cash[1] - INVESTMENT * cash[2], cash[2])
                /\ investment' = investment
           ELSE /\ cash' = Zero
                /\ investment' = Add(investment,
                                     Norm(INVESTMENT * cash[2] - cash[1], cash[2]))
        /\ Add(Sub(cash, cash'), Sub(investment', investment)) = Rat(INVESTMENT)
      ]_vars

\* a BUY was just funded partly from cash: two buys, the second one recorded
\* less than INVESTMENT
C3_Witness ==
    /\ popped.outcome = "buy"
    /\ cash = Zero
    /\ Gt(investment, Rat(INVESTMENT))
    /\ Gt(Rat(2 * INVESTMENT), investment)

\* ------------------------------------------------------------------- C4
\* C4: after a SELL of symbol X with an open position of n shares, X is
\* absent from positions, cash has grown by n * Low(X, current_date), and
\* investment and every other position are unchanged.
C4_SellCloses ==
    [][(PopStep /\ popped'.outcome = "sell") =>
        LET X == popped'.symbol
            n == portfolio[X]
        IN /\ DOMAIN portfolio' = (DOMAIN portfolio) \ {X}
           /\ \A s \in DOMAIN portfolio' : portfolio'[s] = portfolio[s]
           /\ cash' = Add(cash, Norm(n[1] * Low(X, current_date), n[2]))
           /\ investment' = investment
      ]_vars

\* AAA was just sold for cash while the run goes on
C4_Witness ==
    /\ pc = "loop"
    /\ popped.outcome = "sell" /\ popped.symbol = "AAA"
    /\ "AAA" \notin DOMAIN portfolio
    /\ Gt(cash, Zero)

\* ------------------------------------------------------------------- C5
\* C5: a REDUCE of an open position of n shares leaves n - floor(n/2) shares
\* (the symbol stays), credits floor(n/2) * Low to cash and leaves investment.
C5_ReduceHalves ==
    [][(PopStep /\ popped'.outcome = "reduce") =>
        LET X == popped'.symbol
            n == portfolio[X]
            k == n[1] \div (2 * n[2])
        IN /\ DOMAIN portfolio' = DOMAIN portfolio
           /\ portfolio'[X] = Norm(n[1] - k * n[2], n[2])
           /\ cash' = Add(cash, Rat(k * Low(X, current_date)))
           /\ investment' = investment
      ]_vars

\* a fractional position was just reduced: floor(n/2) is not n/2
C5_Witness ==
    /\ popped.outcome = "reduce" /\ popped.symbol = "AAA"
    /\ "AAA" \in DOMAIN portfolio
    /\ portfolio["AAA"][2] # 1
    /\ Gt(cash, Zero)

\* ------------------------------------------------------------------- C6
RECURSIVE Valued(_, _, _)
Valued(S, p, d) ==
    IF S = {} THEN Zero
    ELSE LET s == CHOOSE x \in S : TRUE
         IN Add(Norm(p[s][1] * Close(s, d), p[s][2]), Valued(S \ {s}, p, d))

\* C6: on every trading day, every open position of s shares whose bar has a
\* dividend v > 0 becomes s * (1 + v/100) shares before the valuation, so the
\* day's row values the post-accrual shares at the close; the others keep
\* their shares.
C6_DividendsBeforeValuation ==
    [][ValueStep =>
        LET d == current_date
            row == data'[Len(data')]
            bars == {s \in DOMAIN portfolio : d \in history[s]}
        IN /\ DOMAIN portfolio' = DOMAIN portfolio
           /\ \A s \in DOMAIN portfolio :
                portfolio'[s] =
                    IF s \in bars /\ Dividends(s, d) > 0
                    THEN Norm(portfolio[s][1] * (100 + Dividends(s, d)),
                              portfolio[s][2] * 100)
                    ELSE portfolio[s]
           /\ row.date = d
           /\ row.fool = Add(cash, Valued(bars \ {SnP500}, portfolio', d))
           /\ row.snp = Valued(bars \cap {SnP500}, portfolio', d)
      ]_vars

\* the last row valued an AAA position that had just accrued a dividend
C6_Witness ==
    /\ data # <<>>
    /\ "AAA" \in DOMAIN portfolio
    /\ LastRow.date \in history["AAA"]
    /\ Dividends("AAA", LastRow.date) > 0
    /\ portfolio["AAA"][2] # 1
    /\ LastRow.fool = Add(cash, Valued({"AAA"}, portfolio, LastRow.date))

\* ------------------------------------------------------------------- C7
\* C7: no recommendation dated on or before first_date is ever popped, and
\* after line 73 none is in the queue.
C7_FilteredNeverPopped ==
    /\ popped # NoRec => popped.date > FirstDate
    /\ pc # "start" => \A i \in 1..Len(recs) : recs[i].date > FirstDate

\* a run over at least one trading day has returned; it was given
\* recommendations, all filtered out: none was popped, none is pending
C7_Witness ==
    /\ pc = "done" /\ data # <<>>
    /\ given > 0 /\ recs = <<>> /\ popped = NoRec

\* ------------------------------------------------------------------- C8
\* C8: a missing price bar never aborts the run: no run ends in the KeyError
\* of line 160, raised for a held symbol without a bar on current_date.
C8_MissingBarNeverAborts == pc # "KeyError160"

\* ------------------------------------------------------------------- C9
\* C9: after the final trading day the total of the last report equals the
\* portfolio value of the last output row.
C9_ReportedTotalIsLastRow ==
    (pc = "done" /\ data # <<>>) =>
        /\ snapshot.date = LastRow.date
        /\ snapshot.fool = LastRow.fool

\* ------------------------------------------------------------------ C10
\* C10 as stated: every key of positions maps to a non-zero share count.
C10_NoZeroPosition ==
    \A s \in DOMAIN portfolio : portfolio[s] # Zero

\* C10, amended: every key of positions other than the benchmark maps to a
\* strictly positive share count; sold positions are removed, not zeroed.
C10_NoZeroPositionButBenchmark ==
    \A s \in (DOMAIN portfolio) \ {SnP500} : Gt(portfolio[s], Zero)

\* the run has returned after AAA was bought and then sold: its key is gone
C10_Witness ==
    /\ pc = "done"
    /\ popped.outcome = "sell" /\ popped.symbol = "AAA"
    /\ "AAA" \in DOMAIN history
    /\ "AAA" \notin DOMAIN portfolio

\* ------------------------------------------------------------------ C11
\* C11: the output rows' dates are a prefix of the benchmark calendar in
\* ascending order (the i-th row carries the i-th smallest calendar date),
\* and when the run returns there is one row per calendar date, whatever is
\* still pending in the queue.
C11_OneRowPerTradingDay ==
    pc # "start" =>
        /\ \A i \in 1..Len(data) :
            /\ data[i].date \in Calendar
            /\ Cardinality({x \in Calendar : x < data[i].date}) = i - 1
        /\ Len(data) <= Cardinality(Calendar)
        /\ pc = "done" => Len(data) = Cardinality(Calendar)

\* the run returned over the trading days 1 and 2 with two rows, a
\* recommendation dated on the last trading day still pending
C11_Witness ==
    /\ pc = "done"
    /\ Calendar = {1, 2}
    /\ Len(data) = 2
    /\ recs # <<>>

\* ------------------------------------------------------------------ C12
\* C12: when a recommendation of any action is popped for a symbol without
\* a cached history and the fetch comes back empty, the recommendation is
\* discarded: the symbol has no entry in positions or in the history cache
\* afterwards, and positions, the cache, cash and investment are unchanged.
C12_EmptyFetchDiscards ==
    [][(PopStep /\ (popped'.outcome = "no history"
                    \/ popped'.symbol \notin DOMAIN history')) =>
        LET X == popped'.symbol
        IN /\ popped'.outcome = "no history"
           /\ X \notin DOMAIN history
           /\ X \notin DOMAIN history' /\ history' = history
           /\ X \notin DOMAIN portfolio' /\ portfolio' = portfolio
           /\ cash' = cash /\ investment' = investment
           /\ data' = data /\ pc' = pc
           /\ Len(recs') = Len(recs) - 1
           /\ \A i \in 1..Len(recs') : recs'[i].row # popped'.row
      ]_vars

\* after an earlier shortfall buy, a BUY of AAA was dropped on an empty fetch
C12_Witness ==
    /\ popped.outcome = "no history"
    /\ popped.symbol = "AAA" /\ popped.action = "buy"
    /\ "AAA" \notin DOMAIN history
    /\ "AAA" \notin DOMAIN portfolio
    /\ Gt(investment, Zero)

\* ------------------------------------------------------------------ C13
\* C13 as stated: the price provider is called at most once for any symbol
\* within a run, whatever the fetch returned, and a cached history is never
\* replaced or removed.
C13_FetchedOncePerSymbol ==
    [][/\ \A s \in Symbols : calls'[s] <= 1
       /\ \A s \in DOMAIN history :
            s \in DOMAIN history' /\ history'[s] = history[s]
      ]_vars

\* C13, amended: once a symbol's history is cached the provider is never
\* called for that symbol again and the cached history is never replaced or
\* removed; the provider is called only for a symbol that is not cached.
C13_CachedNeverFetchedAgain ==
    [][/\ \A s \in DOMAIN history :
            /\ s \in DOMAIN history' /\ history'[s] = history[s]
            /\ calls'[s] = calls[s]
       /\ \A s \in Symbols :
            /\ calls'[s] \in {calls[s], calls[s] + 1}
            /\ calls'[s] # calls[s] => (PopStep /\ popped'.symbol = s) \/ pc = "start"
      ]_vars

\* AAA was fetched twice, empty and then not, bought and then sold without a
\* third call
C13_Witness ==
    /\ calls["AAA"] = 2
    /\ "AAA" \in DOMAIN history
    /\ popped.outcome = "sell" /\ popped.symbol = "AAA"

\* ------------------------------------------------------------------ C14
\* C14: popping a HOLD recommendation, however it is capitalised, changes
\* neither positions nor cash nor investment, whether or not its symbol is
\* held and whether or not its history is cached.
C14_HoldDoesNothing ==
    [][(PopStep /\ NextRec.recommendation \in {"HOLD", "Hold", "hold"}) =>
        /\ portfolio' = portfolio
        /\ cash' = cash
        /\ investment' = investment
        /\ data' = data /\ pc' = pc
      ]_vars

\* a HOLD of AAA reached the action test with AAA held and priced: the
\* position bought before is still there and nothing was sold
C14_Witness ==
    /\ popped.action = "hold" /\ popped.outcome = "none"
    /\ popped.symbol = "AAA"
    /\ "AAA" \in DOMAIN portfolio
    /\ popped.on \in history["AAA"]
    /\ cash = Zero /\ Gt(investment, Zero)

\* ------------------------------------------------------------------ C15
\* C15: when the history of a popped recommendation's symbol (cached, or
\* cached by this pop) has no bar for current_date, the recommendation is
\* discarded for good: positions, cash and investment are unchanged, it is
\* gone from the queue, and the queue never takes a recommendation back, so
\* it is not applied on any later trading day.
C15_NoBarDiscardsForGood ==
    [][/\ (PopStep /\ popped'.symbol \in DOMAIN history'
                   /\ current_date \notin history'[popped'.symbol]) =>
            /\ popped'.outcome = "no price"
            /\ portfolio' = portfolio
            /\ cash' = cash
            /\ investment' = investment
            /\ \A i \in 1..Len(recs') : recs'[i].row # popped'.row
       /\ pc # "start" =>
            \/ recs' = recs
            \/ Len(recs) > 0 /\ recs' = SubSeq(recs, 1, Len(recs) - 1)
      ]_vars

\* a BUY of AAA was dropped on a day without an AAA bar; the run went on to
\* a later day that has one and returned, AAA never bought
C15_Witness ==
    /\ pc = "done"
    /\ popped.outcome = "no price" /\ popped.action = "buy"
    /\ popped.symbol = "AAA"
    /\ "AAA" \in DOMAIN history /\ "AAA" \notin DOMAIN portfolio
    /\ popped.on < LastRow.date
    /\ LastRow.date \in history["AAA"]

\* ------------------------------------------------------------------ C16
\* the shares of s in p, none when s is no key
Held(p, s) == IF s \in DOMAIN p THEN p[s] ELSE Zero

\* (INVESTMENT - c) / High(benchmark, d)
ShortfallShares(c, d) ==
    Norm(INVESTMENT * c[2] - c[1], c[2] * High(SnP500, d))

\* C16 as stated: an applied BUY with cash c < INVESTMENT grows the
\* benchmark position by exactly (INVESTMENT - c) / High(benchmark,
\* current_date); an applied BUY of another symbol with c >= INVESTMENT, and
\* a SELL or REDUCE of another symbol, leave the benchmark position alone.
C16_ShortfallGrowsBenchmark ==
    [][PopStep =>
        LET X == popped'.symbol
            short == cash[1] < INVESTMENT * cash[2]
            was == Held(portfolio, SnP500)
            is == Held(portfolio', SnP500)
        IN /\ (popped'.outcome = "buy" /\ short) =>
                is = Add(was, ShortfallShares(cash, current_date))
           /\ (popped'.outcome = "buy" /\ X # SnP500 /\ ~short) => is = was
           /\ (popped'.outcome \in {"sell", "reduce"} /\ X # SnP500) => is = was
      ]_vars

\* C16, amended: an applied BUY of a symbol other than the benchmark with
\* cash c < INVESTMENT grows the benchmark position by exactly
\* (INVESTMENT - c) / High(benchmark, current_date); an applied BUY of the
\* benchmark itself grows it by INVESTMENT / High(benchmark, current_date),
\* and by the shortfall shares on top when c < INVESTMENT; an applied BUY of
\* another symbol with c >= INVESTMENT, and a SELL or REDUCE of another
\* symbol, leave the benchmark position alone.
C16_ShortfallGrowsBenchmarkOnTop ==
    [][PopStep =>
        LET X == popped'.symbol
            short == cash[1] < INVESTMENT * cash[2]
            was == Held(portfolio, SnP500)
            is == Held(portfolio', SnP500)
            bought == Norm(INVESTMENT, High(SnP500, current_date))
            parked == IF short THEN ShortfallShares(cash, current_date) ELSE Zero
        IN /\ (popped'.outcome = "buy" /\ X # SnP500) => is = Add(was, parked)
           /\ (popped'.outcome = "buy" /\ X = SnP500) =>
                is = Add(Add(was, bought), parked)
           /\ (popped'.outcome \in {"sell", "reduce"} /\ X # SnP500) => is = was
      ]_vars

\* a BUY of AAA was just funded partly from cash and partly by a shortfall
\* parked in the benchmark, on top of the shares of an earlier shortfall
C16_Witness ==
    /\ popped.outcome = "buy" /\ popped.symbol = "AAA"
    /\ cash = Zero
    /\ Gt(investment, Rat(INVESTMENT)) /\ Gt(Rat(2 * INVESTMENT), investment)
    /\ SnP500 \in DOMAIN portfolio
    /\ Gt(portfolio[SnP500], Rat(25))

\* ------------------------------------------------------------------ C17
\* C17: when a day D is valued no recommendation dated before D is pending,
\* and the row of D is computed from the cash, investment and (post-accrual)
\* positions left by the recommendations applied so far; the valuation
\* itself applies none.  A recommendation is only ever popped on the
\* current day and before that day's row exists, so none is applied between
\* a day's valuation and the start of the next day.
C17_AppliedBeforeValuation ==
    [][/\ ValueStep =>
            LET D == current_date
                row == data'[Len(data')]
                bars == {s \in DOMAIN portfolio' : D \in history[s]}
            IN /\ \A i \in 1..Len(recs) : recs[i].date >= D
               /\ recs' = recs /\ popped' = popped
               /\ cash' = cash /\ investment' = investment
               /\ row.date = D
               /\ row.investment = investment
               /\ row.fool = Add(cash, Valued(bars \ {SnP500}, portfolio', D))
               /\ row.snp = Valued(bars \cap {SnP500}, portfolio', D)
       /\ PopStep =>
            /\ data' = data /\ current_date' = current_date
            /\ popped'.on = current_date /\ popped'.date < current_date
            /\ \A i \in 1..Len(data) : data[i].date < current_date
      ]_vars

\* the second of two recommendations due on day 2 bought AAA on day 2; the
\* row of day 2 values the shares with that day's dividend accrued
C17_Witness ==
    /\ data # <<>>
    /\ LastRow.date = 2 /\ popped.on = 2
    /\ popped.outcome = "buy" /\ popped.symbol = "AAA"
    /\ given = 2 /\ recs = <<>>
    /\ portfolio["AAA"] = Norm(INVESTMENT * (100 + Dividends("AAA", 2)),
                               High("AAA", 2) * 100)
    /\ LastRow.investment = Rat(INVESTMENT)
    /\ LastRow.fool = Norm(portfolio["AAA"][1] * Close("AAA", 2), portfolio["AAA"][2])

\* ------------------------------------------------------------------ C18
\* C18: cash is never negative in any reachable state (every Low of the
\* provider being non-negative).
C18_CashNeverNegative ==
    /\ cash[2] > 0
    /\ cash[1] >= 0

\* a BUY was just paid in full from the proceeds of an earlier sale, with
\* cash to spare and no new investment
C18_Witness ==
    /\ popped.outcome = "buy"
    /\ Gt(cash, Zero)
    /\ investment = Rat(INVESTMENT)

\* ------------------------------------------------------------------ C19
\* C19: the benchmark symbol is a key of positions in every state from line
\* 81 on, and no BUY ever fails at line 117 on a missing benchmark key,
\* whatever the recommendations (SELL or REDUCE of the benchmark included).
C19_BenchmarkAlwaysHeld ==
    /\ pc # "start" => SnP500 \in DOMAIN portfolio
    /\ pc # "KeyError117"

====
